---------------------------- MODULE Spec2Model ----------------------------
(***************************************************************************)
(* Model of the tariff ingestion command (parse_tariffs.py), the TariffPlan *)
(* store (models.py, admin.py) and the cost calculator.                     *)
(*                                                                         *)
(* String literals are ASCII; Cyrillic source strings are transliterated:   *)
(*   "bezlimit" = безлимит, "neogranichen" = неограничен, "gb_ru" = гб,     *)
(*   "GB_RU" = ГБ, "tb_ru" = тб, "minut" = минут, "sp" = one space,         *)
(*   "nbsp" = the six characters &nbsp;, "tag" = a markup tag such as <b>.  *)
(***************************************************************************)
EXTENDS Integers, Sequences, FiniteSets, TLC

VARIABLES
    text,           \* SpecExtract: the argument handed to an extractor
    extracted,      \* SpecExtract: [fn, value] the extractor called and its return value
    plan,           \* SpecCost: the TariffPlan instance (self), as loaded from the store
    cost,           \* SpecCost: the arguments and locals of calculate_cost_for_user at return
    store,          \* the TariffPlan table: a set of rows
    nextId,         \* the primary key the next created row gets
    store0,         \* history: the table as it was when the last operation began
    operator,       \* the operator of the last parse_and_save_operator call
    tariffs_data,   \* what parse_operator returned in that call (line 76)
    tariffs_count,  \* what that call returned (line 55); 0 when it raised
    repeat,         \* SpecReconcile: the last call repeated the call before it
    runs,           \* SpecReconcile: the calls made so far
    savedKeys,      \* SpecReconcile history: (operator, name) of every record saved
    pc,             \* Spec: where handle is: "idle", "loop", "done"
    options,        \* Spec: the command line options of the run
    queue,          \* Spec: the operators the for loop of handle has yet to visit
    total_parsed,   \* Spec: handle's running total
    outcome,        \* Spec: per operator: "none", "ok" (returned) or "raised"
    page            \* Spec: the response the last adapter call fetched

extVars == <<text, extracted>>

costVars == <<plan, cost>>

storeVars == <<store, nextId, store0, operator, tariffs_data, tariffs_count>>

recVars == <<repeat, runs, savedKeys>>

cmdVars == <<pc, options, queue, total_parsed, outcome, page>>

vars == <<text, extracted, plan, cost, store, nextId, store0, operator,
          tariffs_data, tariffs_count, repeat, runs, savedKeys, pc, options, queue,
          total_parsed, outcome, page>>

(***************************************************************************)
(* Text extractors (parse_tariffs.py 125-191).  A text is a sequence of     *)
(* tokens; every regular expression of the source is evaluated on the       *)
(* token sequence exactly as re.search evaluates it on the characters the   *)
(* tokens spell (leftmost match, greedy \d+).                               *)
(***************************************************************************)
MaxTextLen == 3

UNLIMITED == 999999

Alphabet ==
    {"bezlimit", "neogranichen", "sp", "nbsp", "tag", "1", "5",
     "gb_ru", "GB_RU", "tb_ru", "gb", "minut"}

Texts == UNION {[1..n -> Alphabet] : n \in 0..MaxTextLen}

IsDigit(t) == t \in {"1", "5"}

DigitVal(t) == IF t = "1" THEN 1 ELSE 5

\* str.lower(): the only upper-case token of the alphabet is ГБ
Lower(t) == IF t = "GB_RU" THEN "gb_ru" ELSE t

\* re.sub(r'<.*?>', '', text)
remove_tags(s) == SelectSeq(s, LAMBDA t : t /= "tag")

\* Command.remove_tags(str(text).lower().replace('&nbsp;', ' '))
text_lower(s) ==
    remove_tags([i \in 1..Len(s) |->
        IF Lower(s[i]) = "nbsp" THEN "sp" ELSE Lower(s[i])])

\* the Python test  sub in s
Contains(s, sub) ==
    \E i \in 1..(Len(s) + 1 - Len(sub)) : SubSeq(s, i, i + Len(sub) - 1) = sub

\* index just after the maximal run of digits that starts at i  (\d+, \d*)
RECURSIVE DigitsEnd(_, _)
DigitsEnd(s, i) ==
    IF i <= Len(s) /\ IsDigit(s[i]) THEN DigitsEnd(s, i + 1) ELSE i

\* index just after the run of spaces that starts at i  (\s*)
RECURSIVE SkipSpaces(_, _)
SkipSpaces(s, i) ==
    IF i <= Len(s) /\ s[i] = "sp" THEN SkipSpaces(s, i + 1) ELSE i

\* int()/float() of the digits s[i..j-1]
RECURSIVE NumberOf(_, _, _)
NumberOf(s, i, j) ==
    IF j <= i THEN 0 ELSE NumberOf(s, i, j - 1) * 10 + DigitVal(s[j - 1])

\* (\d+)\s*(?:u1|u2|...) matches starting at i
NumUnitAt(s, i, units) ==
    /\ i <= Len(s)
    /\ IsDigit(s[i])
    /\ LET k == SkipSpaces(s, DigitsEnd(s, i))
       IN  k <= Len(s) /\ s[k] \in units

\* re.search: the leftmost start of a match of (\d+)\s*(?:units), 0 when none
NumUnitSearch(s, units) ==
    IF \E i \in 1..Len(s) : NumUnitAt(s, i, units)
    THEN CHOOSE i \in 1..Len(s) :
            /\ NumUnitAt(s, i, units)
            /\ \A j \in 1..(i - 1) : ~NumUnitAt(s, j, units)
    ELSE 0

\* match.group(1) of that match, as a number
NumUnitGroup(s, units) ==
    LET i == NumUnitSearch(s, units) IN NumberOf(s, i, DigitsEnd(s, i))

\* The second entry of extract_data_gb's pattern list is two adjacent string
\* literals with no comma between them (lines 149-150), which Python joins into
\*   неограничен(\d+[\s,.]?\d*)\s*(?:гб|gb|гигабайт)
UnlimitedNumberAt(s, i) ==
    /\ i < Len(s)
    /\ s[i] = "neogranichen"
    /\ IsDigit(s[i + 1])
    /\ LET j == DigitsEnd(s, i + 1)
           k == SkipSpaces(s, j)
       IN  \/ k <= Len(s) /\ s[k] \in {"gb_ru", "gb"}
           \/ /\ j < Len(s) /\ s[j] = "sp" /\ IsDigit(s[j + 1])
              /\ LET m == SkipSpaces(s, DigitsEnd(s, j + 1))
                 IN  m <= Len(s) /\ s[m] \in {"gb_ru", "gb"}

\* extract_data_gb (lines 141-168): the patterns are tried in list order and the
\* first that matches decides; a match in a text holding an unlimited phrase
\* returns 999999 (line 161), otherwise group(1) times the multiplier.
extract_data_gb(t) ==
    LET s == text_lower(t)
        unlimited == \/ Contains(s, <<"bezlimit", "sp", "gb_ru">>)
                     \/ Contains(s, <<"neogranichen">>)
    IN  IF Contains(s, <<"bezlimit", "sp", "gb_ru">>)            \* r'безлимит гб'
        THEN UNLIMITED
        ELSE IF \E i \in 1..Len(s) : UnlimitedNumberAt(s, i)     \* joined literal
        THEN UNLIMITED
        ELSE IF NumUnitSearch(s, {"gb_ru"}) /= 0                 \* r'(\d+)\s*гб'
        THEN IF unlimited THEN UNLIMITED
             ELSE NumUnitGroup(s, {"gb_ru"}) * 1
        ELSE IF NumUnitSearch(s, {"tb_ru"}) /= 0                 \* r'(\d+)\s*тб'
        THEN IF unlimited THEN UNLIMITED
             ELSE NumUnitGroup(s, {"tb_ru"}) * 1000
        ELSE 0

\* extract_minutes (lines 170-191).  "minut" is the only minute unit of the
\* alphabet; it is matched by both numeric patterns (мин is a prefix of минут).
extract_minutes(t) ==
    LET s == text_lower(t)
        unlimited == \/ Contains(s, <<"bezlimit", "sp", "minut">>)
                     \/ Contains(s, <<"neogranichen">>)
    IN  IF NumUnitSearch(s, {"minut"}) /= 0          \* r'(\d+)\s*(?:минут|мин|min)'
        THEN IF unlimited THEN UNLIMITED
             ELSE NumUnitGroup(s, {"minut"})
        ELSE IF Contains(s, <<"bezlimit", "sp", "minut">>)       \* r'безлимит минут'
        THEN UNLIMITED
        ELSE IF Contains(s, <<"neogranichen">>)                  \* r'неограничен'
        THEN UNLIMITED
        ELSE 0

(***************************************************************************)
(* Cost calculator (models.py 81-89).  Python's arithmetic is typed: a      *)
(* number is [t, v] with t the Python type.  Fields read back from the      *)
(* store have the type of their model field: DecimalField -> Decimal,       *)
(* FloatField -> float, IntegerField -> int (models.py 36-65).              *)
(***************************************************************************)
Num(t, v) == [t |-> t, v |-> v]

TypeError == Num("TypeError", 0)

\* a - b : int/float arithmetic widens to float; Decimal never mixes with float
PySub(a, b) ==
    IF "TypeError" \in {a.t, b.t} \/ {a.t, b.t} = {"float", "Decimal"}
    THEN TypeError
    ELSE Num(IF "float" \in {a.t, b.t} THEN "float"
             ELSE IF "Decimal" \in {a.t, b.t} THEN "Decimal" ELSE "int",
             a.v - b.v)

\* a * b : float * Decimal raises TypeError (unsupported operand types)
PyMul(a, b) ==
    IF "TypeError" \in {a.t, b.t} \/ {a.t, b.t} = {"float", "Decimal"}
    THEN TypeError
    ELSE Num(IF "float" \in {a.t, b.t} THEN "float"
             ELSE IF "Decimal" \in {a.t, b.t} THEN "Decimal" ELSE "int",
             a.v * b.v)

\* a + b
PyAdd(a, b) ==
    IF "TypeError" \in {a.t, b.t} \/ {a.t, b.t} = {"float", "Decimal"}
    THEN TypeError
    ELSE Num(IF "float" \in {a.t, b.t} THEN "float"
             ELSE IF "Decimal" \in {a.t, b.t} THEN "Decimal" ELSE "int",
             a.v + b.v)

\* max(0, x): x when x > 0, otherwise the int 0 (the first of equal arguments)
PyMax0(x) ==
    IF x.t = "TypeError" THEN TypeError
    ELSE IF x.v > 0 THEN x ELSE Num("int", 0)

\* the fields of a TariffPlan instance loaded from the store
monthly_fee(p) == Num("Decimal", p.monthly_fee)

data_volume(p) == Num("float", p.data_volume)

minutes_volume(p) == Num("int", p.minutes_volume)

overage_data_price(p) == Num("Decimal", p.overage_data_price)

overage_minute_price(p) == Num("Decimal", p.overage_minute_price)

\* calculate_cost_for_user: the locals at the return statement; total_cost is
\* TypeError when evaluating line 88 raises
calculate_cost_for_user(p, data_gb, minutes) ==
    LET base_cost == monthly_fee(p)
        extra_data == PyMax0(PySub(data_gb, data_volume(p)))
        extra_minutes == PyMax0(PySub(minutes, minutes_volume(p)))
        total_cost == PyAdd(PyAdd(base_cost,
                                  PyMul(extra_data, overage_data_price(p))),
                            PyMul(extra_minutes, overage_minute_price(p)))
    IN  [called |-> TRUE, data_gb |-> data_gb, minutes |-> minutes,
         extra_data |-> extra_data, extra_minutes |-> extra_minutes,
         total_cost |-> total_cost]

\* stored plans: fields that passed the validators of models.py 36-65
Plans ==
    [monthly_fee : {0, 300},
     data_volume : {0, 10, UNLIMITED},
     minutes_volume : {0, 100, UNLIMITED},
     overage_data_price : {0, 100},
     overage_minute_price : {0, 3}]

\* consumption: avg_monthly_data is a float, a caller may also pass an int
DataGbInputs ==
    {Num("int", 0), Num("float", 5), Num("int", 10), Num("int", 12),
     Num("float", 12), Num("int", UNLIMITED + 1)}

MinutesInputs ==
    {Num("int", 0), Num("int", 100), Num("int", 150), Num("int", UNLIMITED + 1)}

NoCost ==
    [called |-> FALSE, data_gb |-> Num("int", 0), minutes |-> Num("int", 0),
     extra_data |-> Num("int", 0), extra_minutes |-> Num("int", 0),
     total_cost |-> Num("int", 0)]

(***************************************************************************)
(* The TariffPlan table and the reconciliation loop                         *)
(* (parse_tariffs.py 73-108, models.py 24-76).                              *)
(* Operator names are transliterated: "Beeline" = Билайн, "MTS" = МТС,      *)
(* "MegaFon" = МегаФон, "T2" = Т2, "Yota" = Йота (no adapter matches it).  *)
(***************************************************************************)
MaxBatch == 2

MaxRuns == 2

\* unique_together = ['operator', 'name'] (models.py 76)
KeyOf(r) == <<r.operator, r.name>>

\* dict.get(key, default)
Get(d, key, default) == IF key \in DOMAIN d THEN d[key] ELSE default

\* one character of a str: what iterating over a returned message yields
Char == [pytype |-> "str"]

IsDict(x) == "pytype" \notin DOMAIN x

List(items) == [kind |-> "list", items |-> items]

\* a str of n characters
Str(n) == [kind |-> "str", items |-> [i \in 1..n |-> Char]]

\* the defaults= argument of update_or_create (lines 88-96)
Defaults(tariff_data) ==
    [description |-> Get(tariff_data, "description", ""),
     monthly_fee |-> tariff_data.monthly_fee,
     data_volume |-> Get(tariff_data, "data_volume", 0),
     minutes_volume |-> Get(tariff_data, "minutes_volume", 0),
     overage_data_price |-> Get(tariff_data, "overage_data_price", 0),
     overage_minute_price |-> Get(tariff_data, "overage_minute_price", 0),
     is_archived |-> Get(tariff_data, "is_archived", FALSE)]

\* a plausible slip: the lookup names the plan only, operator moved to defaults
update_or_create_by_name(st, nid, op, name, defaults) ==
    LET found == {r \in st : r.name = name}
        key == [operator |-> op, name |-> name]
    IN  IF found = {}
        THEN [store |-> st \cup {[id |-> nid] @@ key @@ defaults},
              nextId |-> nid + 1, created |-> TRUE, raised |-> FALSE]
        ELSE IF Cardinality(found) = 1
        THEN [store |-> (st \ found)
                          \cup {[id |-> r.id] @@ key @@ defaults : r \in found},
              nextId |-> nid, created |-> FALSE, raised |-> FALSE]
        ELSE [store |-> st, nextId |-> nid, created |-> FALSE, raised |-> TRUE]

\* a plausible slip: objects.create in place of update_or_create
always_create(st, nid, op, name, defaults) ==
    [store |-> st \cup {[id |-> nid] @@ [operator |-> op, name |-> name]
                            @@ defaults},
     nextId |-> nid + 1, created |-> TRUE, raised |-> FALSE]

\* TariffPlan.objects.update_or_create(operator=, name=, defaults=) (lines 85-97):
\* the row with that (operator, name) gets the defaults, or a new row is
\* created; no validator runs (save() does not call full_clean()).  More than
\* one matching row raises MultipleObjectsReturned.
update_or_create(st, nid, op, name, defaults) ==
    LET found == {r \in st : r.operator = op /\ r.name = name}
        key == [operator |-> op, name |-> name]
    IN  IF found = {}
        THEN [store |-> st \cup {[id |-> nid] @@ key @@ defaults},
              nextId |-> nid + 1, created |-> TRUE, raised |-> FALSE]
        ELSE IF Cardinality(found) = 1
        THEN [store |-> (st \ found)
                          \cup {[id |-> r.id] @@ key @@ defaults : r \in found},
              nextId |-> nid, created |-> FALSE, raised |-> FALSE]
        ELSE [store |-> st, nextId |-> nid, created |-> FALSE, raised |-> TRUE]

\* the for loop of parse_and_save_operator (lines 81-108).  Subscripting a
\* character, or a dict without the key (lines 87, 90), raises before the table
\* is touched; the except of line 105 reports it and the loop goes on.
RECURSIVE save_loop(_, _, _, _)
save_loop(st, nid, op, items) ==
    IF items = << >>
    THEN [store |-> st, nextId |-> nid, saved_count |-> 0, saved |-> {}]
    ELSE LET tariff_data == Head(items)
             raises == \/ ~IsDict(tariff_data)
                       \/ "name" \notin DOMAIN tariff_data
                       \/ "monthly_fee" \notin DOMAIN tariff_data
             r == IF raises
                  THEN [store |-> st, nextId |-> nid, raised |-> TRUE]
                  ELSE update_or_create(st, nid, op, tariff_data.name,
                                        Defaults(tariff_data))
             rest == save_loop(r.store, r.nextId, op, Tail(items))
         IN  IF r.raised THEN rest
             ELSE [rest EXCEPT !.saved_count = @ + 1,
                               !.saved = @ \cup {tariff_data.name}]

\* parse_and_save_operator after line 76, given what parse_operator returned
parse_and_save_operator(st, nid, op, data, dry_run) ==
    IF dry_run
    THEN [store |-> st, nextId |-> nid, saved_count |-> Len(data.items),
          saved |-> {}]
    ELSE save_loop(st, nid, op, data.items)

\* raw tariff records handed to the loop
RawRecords ==
    {[name |-> "A", description |-> "d", monthly_fee |-> 100, data_volume |-> 10,
      minutes_volume |-> 100, overage_data_price |-> 5,
      overage_minute_price |-> 3, is_archived |-> FALSE],
     [name |-> "A", monthly_fee |-> 300],
     [name |-> "B", monthly_fee |-> -1],
     [monthly_fee |-> 100]}

Batches == UNION {[1..n -> RawRecords] : n \in 0..MaxBatch}

ReconcileOperators == {"MTS", "Beeline"}

(***************************************************************************)
(* Source adapters and the batch command (parse_tariffs.py 39-71, 110-123, *)
(* 193-367).  A page is what the fetch of an operator's website gave:       *)
(*   fetch_ok    requests.get returned (it did not raise)                   *)
(*   units       the tariff units in the response: МТС div.card elements,   *)
(*               Билайн tariffsCards plus extraTariffsCards entries, the    *)
(*               one fixed entry of МегаФон and Т2                          *)
(*   well_formed every unit has the expected children / the JSON parses     *)
(*   script      (Билайн) a script holds the TariffsCatalogLanding marker   *)
(*   json_match  (Билайн) the React.createElement regular expression finds  *)
(*               the JSON argument                                          *)
(***************************************************************************)
MaxUnits == 2

MaxRowId == 3

Operators == {"Beeline", "Yota", "MTS", "MegaFon", "T2"}

\* Operator.Meta.ordering = ['name']: Билайн, Йота, МТС, МегаФон, Т2
OperatorOrder == <<"Beeline", "Yota", "MTS", "MegaFon", "T2">>

NoPage == [fetch_ok |-> TRUE, units |-> 0, well_formed |-> TRUE,
           script |-> TRUE, json_match |-> TRUE]

FailedFetch == [NoPage EXCEPT !.fetch_ok = FALSE]

UnitPages ==
    {[NoPage EXCEPT !.units = n, !.well_formed = w] :
        n \in 0..MaxUnits, w \in BOOLEAN}

PagesFor(op) ==
    CASE op = "MTS" ->
            {FailedFetch} \cup {pg \in UnitPages : pg.units = 0 => pg.well_formed}
      [] op = "Beeline" ->
            {FailedFetch, [NoPage EXCEPT !.script = FALSE],
             [NoPage EXCEPT !.json_match = FALSE]} \cup UnitPages
      [] op \in {"MegaFon", "T2"} ->
            {FailedFetch, [NoPage EXCEPT !.units = 1]}
      [] OTHER -> {NoPage}

\* parse_mts (lines 193-216): a failed fetch or a card without the expected
\* elements raises and the except returns []; otherwise the list of line 199 is
\* returned at line 212, and the loop of lines 202-210 builds each tariff dict
\* without ever appending it to that list.
parse_mts(pg) ==
    LET tariffs == << >>
    IN  IF ~pg.fetch_ok THEN List(<< >>)
        ELSE IF pg.units > 0 /\ ~pg.well_formed THEN List(<< >>)
        ELSE List(tariffs)

\* parse_megafon (lines 218-247) and parse_t2 (lines 338-367): after the fetch
\* the fixed entry is built with self.extract_price(...), which hands two
\* arguments to a function defined with one parameter (line 128): TypeError,
\* caught by the except, which returns [].
parse_megafon(pg) ==
    IF ~pg.fetch_ok THEN List(<< >>) ELSE List(<< >>)

parse_t2(pg) ==
    IF ~pg.fetch_ok THEN List(<< >>) ELSE List(<< >>)

\* parse_beeline (lines 250-336): a failed fetch returns []; a missing script
\* or JSON returns a message (27 and 21 characters); json.loads (line 297)
\* names a module the file never imports, the NameError is caught by the bare
\* except of line 298, which returns an 18 character message.  Lines 301-332
\* are never reached.
parse_beeline(pg) ==
    IF ~pg.fetch_ok THEN List(<< >>)
    ELSE IF ~pg.script THEN Str(27)
    ELSE IF ~pg.json_match THEN Str(21)
    ELSE Str(18)

\* parse_operator (lines 110-123): the adapter is chosen by operator name
parse_operator(op, pg) ==
    IF op = "MTS" THEN parse_mts(pg)
    ELSE IF op = "MegaFon" THEN parse_megafon(pg)
    ELSE IF op = "Beeline" THEN parse_beeline(pg)
    ELSE IF op = "T2" THEN parse_t2(pg)
    ELSE List(<< >>)

\* --operator values: "" (not given), "mts_ru" = мтс, "t_ru" = т, "mts" (the
\* Latin spelling of the help text, which no operator name contains)
OperatorFilters == {"", "mts_ru", "t_ru", "mts"}

\* name__icontains (line 44)
icontains(name, sub) ==
    CASE sub = "mts_ru" -> name = "MTS"
      [] sub = "t_ru" -> name \in {"Yota", "MTS", "T2"}
      [] OTHER -> FALSE

\* lines 41-44: the operators the run visits
Selected(opts) ==
    IF opts.operator /= ""
    THEN {o \in Operators : icontains(o, opts.operator)}
    ELSE Operators

OptionSets ==
    [operator : OperatorFilters, force : BOOLEAN, dry_run : BOOLEAN,
     clear : BOOLEAN]

\* a plausible slip: no try/except around the call, the exception ends handle
no_except(raised) == IF raised THEN "aborted" ELSE "loop"

\* lines 54-69: an exception of parse_and_save_operator is caught and reported,
\* and the for loop goes on
handle_except(raised) == "loop"

\* a plausible slip: the if of line 46 left out, every run deletes the rows
clear_always(st, clear) == {}

\* lines 46-48: with --clear, TariffPlan.objects.all().delete() before the loop,
\* in handle, outside every transaction
clear_existing(st, clear) == IF clear THEN {} ELSE st

\* rows entered through the admin form, which validates them
\* (admin.py 9-13, models.py 36-76)
AdminPlans ==
    {[operator |-> "MTS", name |-> "A", description |-> "", monthly_fee |-> 100,
      data_volume |-> 10, minutes_volume |-> 100, overage_data_price |-> 5,
      overage_minute_price |-> 3, is_archived |-> FALSE],
     [operator |-> "Beeline", name |-> "A", description |-> "",
      monthly_fee |-> 300, data_volume |-> 0, minutes_volume |-> 0,
      overage_data_price |-> 0, overage_minute_price |-> 0,
      is_archived |-> FALSE]}

(***************************************************************************)
(* Specifications                                                          *)
(***************************************************************************)
NoOptions == [operator |-> "", force |-> FALSE, dry_run |-> FALSE, clear |-> FALSE]

ExtIdle ==
    /\ text = << >>
    /\ extracted = [fn |-> "none", value |-> 0]

CostIdle ==
    /\ plan = [monthly_fee |-> 0, data_volume |-> 0, minutes_volume |-> 0,
               overage_data_price |-> 0, overage_minute_price |-> 0]
    /\ cost = NoCost

StoreIdle ==
    /\ store = {}
    /\ nextId = 1
    /\ store0 = {}
    /\ operator = "none"
    /\ tariffs_data = List(<< >>)
    /\ tariffs_count = 0

RecIdle ==
    /\ repeat = FALSE
    /\ runs = 0
    /\ savedKeys = {}

CmdIdle ==
    /\ pc = "idle"
    /\ options = NoOptions
    /\ queue = << >>
    /\ total_parsed = 0
    /\ outcome = [o \in Operators |-> "none"]
    /\ page = NoPage

\* --- the extractors applied to every text of the alphabet
ExtInit ==
    /\ text \in Texts
    /\ extracted = [fn |-> "none", value |-> 0]
    /\ CostIdle /\ StoreIdle /\ RecIdle /\ CmdIdle

CallExtractDataGb ==
    /\ extracted' = [fn |-> "extract_data_gb", value |-> extract_data_gb(text)]
    /\ UNCHANGED <<text, costVars, storeVars, recVars, cmdVars>>

CallExtractMinutes ==
    /\ extracted' = [fn |-> "extract_minutes", value |-> extract_minutes(text)]
    /\ UNCHANGED <<text, costVars, storeVars, recVars, cmdVars>>

ExtNext == CallExtractDataGb \/ CallExtractMinutes

SpecExtract == ExtInit /\ [][ExtNext]_vars

\* --- the calculator applied to every stored plan and consumption
CostInit ==
    /\ plan \in Plans
    /\ cost = NoCost
    /\ ExtIdle /\ StoreIdle /\ RecIdle /\ CmdIdle

CallCalculateCost ==
    /\ \E d \in DataGbInputs, m \in MinutesInputs :
          cost' = calculate_cost_for_user(plan, d, m)
    /\ UNCHANGED <<plan, extVars, storeVars, recVars, cmdVars>>

CostNext == CallCalculateCost

SpecCost == CostInit /\ [][CostNext]_vars

\* --- reconciliation runs (dry_run not set) over every batch of raw records,
\* starting from the empty table
RecInit == ExtIdle /\ CostIdle /\ StoreIdle /\ RecIdle /\ CmdIdle

Run(op, batch, again) ==
    /\ runs < MaxRuns
    /\ \E res \in {parse_and_save_operator(store, nextId, op, List(batch), FALSE)} :
        /\ runs' = runs + 1
        /\ store0' = store
        /\ store' = res.store
        /\ nextId' = res.nextId
        /\ operator' = op
        /\ tariffs_data' = List(batch)
        /\ tariffs_count' = res.saved_count
        /\ savedKeys' = savedKeys \cup {<<op, n>> : n \in res.saved}
        /\ repeat' = again
        /\ UNCHANGED <<extVars, costVars, cmdVars>>

Reconcile == \E op \in ReconcileOperators, batch \in Batches : Run(op, batch, FALSE)

\* the same operator and the same batch once more, right after
ReconcileAgain ==
    /\ operator /= "none"
    /\ Run(operator, tariffs_data.items, TRUE)

RecNext == Reconcile \/ ReconcileAgain

SpecReconcile == RecInit /\ [][RecNext]_vars

\* --- the batch command, with the admin editing the table between runs
Init == ExtIdle /\ CostIdle /\ StoreIdle /\ RecIdle /\ CmdIdle

\* TariffPlanAdmin, add form
AdminAdd ==
    /\ pc = "idle"
    /\ nextId <= MaxRowId
    /\ \E row \in AdminPlans :
          /\ \A r \in store : KeyOf(r) /= KeyOf(row)
          /\ store' = store \cup {[id |-> nextId] @@ row}
    /\ nextId' = nextId + 1
    /\ store0' = store'
    /\ UNCHANGED <<operator, tariffs_data, tariffs_count, extVars, costVars,
                   recVars, cmdVars>>

\* TariffPlanAdmin, delete
AdminDelete ==
    /\ pc = "idle"
    /\ \E r \in store : store' = store \ {r}
    /\ store0' = store'
    /\ UNCHANGED <<nextId, operator, tariffs_data, tariffs_count, extVars,
                   costVars, recVars, cmdVars>>

\* handle, lines 39-52
HandleStart ==
    /\ pc = "idle"
    /\ \E opts \in OptionSets :
          /\ options' = opts
          /\ queue' = SelectSeq(OperatorOrder, LAMBDA o : o \in Selected(opts))
          /\ store' = clear_existing(store, opts.clear)
    /\ store0' = store
    /\ total_parsed' = 0
    /\ pc' = "loop"
    /\ UNCHANGED <<nextId, operator, tariffs_data, tariffs_count, outcome, page,
                   extVars, costVars, recVars>>

\* one iteration of the for loop, lines 53-69: parse_and_save_operator for the
\* next operator, inside its transaction (line 73); raised: the transaction
\* fails at commit, everything it wrote is rolled back and the call raises
ProcessOperator ==
    /\ pc = "loop"
    /\ queue /= << >>
    /\ \E pg \in PagesFor(Head(queue)), raised \in BOOLEAN :
       \E data \in {parse_operator(Head(queue), pg)} :
       \E res \in {parse_and_save_operator(store, nextId, Head(queue), data,
                                           options.dry_run)} :
          /\ page' = pg
          /\ tariffs_data' = data
          /\ store' = IF raised THEN store ELSE res.store
          /\ nextId' = IF raised THEN nextId ELSE res.nextId
          /\ tariffs_count' = IF raised THEN 0 ELSE res.saved_count
          /\ total_parsed' = IF raised THEN total_parsed
                             ELSE total_parsed + res.saved_count
          /\ outcome' = [outcome EXCEPT
                            ![Head(queue)] = IF raised THEN "raised" ELSE "ok"]
          /\ pc' = handle_except(raised)
    /\ operator' = Head(queue)
    /\ queue' = Tail(queue)
    /\ UNCHANGED <<store0, options, extVars, costVars, recVars>>

\* line 71: the summary line
HandleFinish ==
    /\ pc = "loop"
    /\ queue = << >>
    /\ pc' = "done"
    /\ UNCHANGED <<storeVars, options, queue, total_parsed, outcome, page,
                   extVars, costVars, recVars>>

\* the process exits
Return ==
    /\ pc = "done"
    /\ pc' = "idle"
    /\ options' = NoOptions
    /\ total_parsed' = 0
    /\ outcome' = [o \in Operators |-> "none"]
    /\ page' = NoPage
    /\ store0' = store
    /\ operator' = "none"
    /\ tariffs_data' = List(<< >>)
    /\ tariffs_count' = 0
    /\ UNCHANGED <<store, nextId, queue, extVars, costVars, recVars>>

Next ==
    \/ AdminAdd
    \/ AdminDelete
    \/ HandleStart
    \/ ProcessOperator
    \/ HandleFinish
    \/ Return

Spec == Init /\ [][Next]_vars

(***************************************************************************)
(* Claims                                                                  *)
(***************************************************************************)
\* --- claims about the batch command (Spec)
InRun == pc \in {"loop", "done"}

(* C3: whichever selected operators' processing raises, the run is never    *)
(* ended by the exception: inside the loop the next iteration or the        *)
(* summary line can always be taken, every operator the loop has passed was *)
(* processed (returned or raised), and when the summary line is written     *)
(* every selected operator has been processed.                              *)
C3_FaultIsolation ==
    /\ pc \in {"idle", "loop", "done"}
    /\ pc = "loop" => ENABLED (ProcessOperator \/ HandleFinish)
    /\ InRun =>
          /\ \A o \in Operators \ Selected(options) : outcome[o] = "none"
          /\ \A o \in Selected(options) :
                outcome[o] = "none" <=> \E i \in 1..Len(queue) : queue[i] = o
    /\ pc = "done" =>
          /\ queue = << >>
          /\ \A o \in Selected(options) : outcome[o] \in {"ok", "raised"}

\* a finished run in which the first operator raised and a later one returned
C3_Witness ==
    /\ pc = "done"
    /\ outcome["Beeline"] = "raised"
    /\ outcome["T2"] = "ok"
    /\ outcome["MTS"] = "raised"

(* C4: a run with dry-run set leaves the TariffPlan table exactly as it was *)
(* before the run, whatever the other options and the adapters' outcomes.   *)
C4_DryRunWritesNothing ==
    (InRun /\ options.dry_run) => store = store0

\* the adapter call failed: the fetch, the expected structure or the JSON
AdapterFailed(pg) ==
    ~pg.fetch_ok \/ ~pg.script \/ ~pg.json_match \/ ~pg.well_formed

(* C5: every source adapter returns an empty sequence on any failure        *)
(* (network error, expected script/JSON structure missing, JSON parse       *)
(* failure) and never returns a value that is not a sequence of records.    *)
C5_AdapterFailureGivesEmptyList ==
    (InRun /\ operator /= "none") =>
        /\ tariffs_data.kind = "list"
        /\ AdapterFailed(page) => tariffs_data.items = << >>

(* C10: when the fetch succeeds and the response holds N well-formed tariff *)
(* units, the adapter returns a sequence of exactly N raw tariff records.   *)
C10_OneRecordPerUnit ==
    (InRun /\ operator \in {"MTS", "MegaFon", "Beeline", "T2"}
           /\ ~AdapterFailed(page)) =>
        /\ tariffs_data.kind = "list"
        /\ Len(tariffs_data.items) = page.units

\* the rows a step creates, updates or deletes
Mutated == (store \ store') \cup (store' \ store)

\* the step is taken by a run of the command and changes the table
RunMutates == pc' \in {"loop", "done"} /\ store' /= store

\* the step is the call of parse_and_save_operator for the next operator and
\* changes only rows of that operator
InOwnTransaction ==
    /\ pc = "loop"
    /\ queue /= << >>
    /\ operator' = Head(queue)
    /\ \A r \in Mutated : r.operator = Head(queue)

(* C11: during a batch run with any option combination, every mutation of   *)
(* the TariffPlan store happens inside the per-operator transaction of      *)
(* parse_and_save_operator for the operator that owns the row; no row is    *)
(* changed outside such a transaction or by another operator's processing.  *)
C11_MutationOnlyInTransaction ==
    [][RunMutates => InOwnTransaction]_vars

(* C11, amended: during a batch run every mutation of the store is either   *)
(* the clear-first step (with --clear, all rows are deleted once, before    *)
(* the first operator is processed) or happens inside the per-operator      *)
(* transaction of the operator that owns the row.                           *)
C11_MutationInTransactionOrClear ==
    [][RunMutates =>
          \/ pc = "idle" /\ options'.clear /\ store' = {}
          \/ InOwnTransaction]_vars

\* a finished run with --clear and without --dry-run over a table that held
\* rows: the clear step emptied it and two operators were processed after it
C11_Witness ==
    /\ pc = "done"
    /\ options.clear
    /\ ~options.dry_run
    /\ store0 /= {}
    /\ store = {}
    /\ outcome["Beeline"] = "ok"
    /\ outcome["MTS"] = "ok"

\* the number of raw tariff records in what an adapter returned
NumRecords(data) ==
    Cardinality({i \in 1..Len(data.items) : IsDict(data.items[i])})

\* the step is a dry-run call of parse_and_save_operator that returns
DryRunCall ==
    /\ pc = "loop"
    /\ queue /= << >>
    /\ options.dry_run
    /\ outcome'[Head(queue)] = "ok"

(* C12: in dry-run mode the count parse_and_save_operator returns for an    *)
(* operator, and adds to the final aggregate, equals the number of raw      *)
(* tariff records its adapter extracted, and is 0 whenever the adapter      *)
(* failed or no adapter matches the operator's name.                        *)
C12_DryRunCountsRecords ==
    [][DryRunCall =>
          /\ tariffs_count' = NumRecords(tariffs_data')
          /\ total_parsed' = total_parsed + tariffs_count'
          /\ (AdapterFailed(page')
                 \/ Head(queue) \notin {"MTS", "MegaFon", "Beeline", "T2"})
                => tariffs_count' = 0]_vars

\* --- claims about the reconciliation loop (SpecReconcile)
FieldsOf(r) ==
    [description |-> r.description, monthly_fee |-> r.monthly_fee,
     data_volume |-> r.data_volume, minutes_volume |-> r.minutes_volume,
     overage_data_price |-> r.overage_data_price,
     overage_minute_price |-> r.overage_minute_price,
     is_archived |-> r.is_archived]

\* the positions of the last batch whose record could be saved under name n
SavedAt(n) ==
    {i \in 1..Len(tariffs_data.items) :
        LET d == tariffs_data.items[i]
        IN  IsDict(d) /\ {"name", "monthly_fee"} \subseteq DOMAIN d /\ d.name = n}

LastOf(S) == CHOOSE i \in S : \A j \in S : j <= i

BatchNames == {"A", "B"}

(* C1: the table never holds two rows with the same (operator, name); a     *)
(* call of parse_and_save_operator overwrites in place (same id, the fields *)
(* of the record) the row whose key exists, adds exactly one row for each   *)
(* new name, leaves every other row alone; and from the empty table the     *)
(* plans of an operator are as many as the distinct names saved for it.     *)
C1_UpsertByKey ==
    /\ \A r1, r2 \in store : KeyOf(r1) = KeyOf(r2) => r1 = r2
    /\ \A op \in ReconcileOperators :
          Cardinality({r \in store : r.operator = op})
              = Cardinality({k \in savedKeys : k[1] = op})
    /\ operator /= "none" =>
          /\ \A n \in BatchNames :
                LET now == {r \in store : KeyOf(r) = <<operator, n>>}
                    before == {r \in store0 : KeyOf(r) = <<operator, n>>}
                IN  IF SavedAt(n) = {} THEN now = before
                    ELSE /\ Cardinality(now) = 1
                         /\ \A r \in now :
                               /\ FieldsOf(r) =
                                     Defaults(tariffs_data.items[LastOf(SavedAt(n))])
                               /\ \A r0 \in before : r.id = r0.id
                               /\ before = {} =>
                                     \A r0 \in store0 : r.id /= r0.id
          /\ {r \in store : r.operator /= operator}
                = {r \in store0 : r.operator /= operator}
          /\ Cardinality(store) = Cardinality(store0)
                + Cardinality({n \in BatchNames :
                      /\ SavedAt(n) /= {}
                      /\ \A r0 \in store0 : KeyOf(r0) /= <<operator, n>>})

\* one call that overwrote a row in place and created another
C1_Witness ==
    /\ operator /= "none"
    /\ Cardinality(store) = Cardinality(store0) + 1
    /\ \E r \in store, r0 \in store0 :
          r.id = r0.id /\ KeyOf(r) = KeyOf(r0) /\ r.monthly_fee /= r0.monthly_fee

(* C2: running parse_and_save_operator twice in a row with the same         *)
(* operator and batch leaves the table, rows and field values, as the first *)
(* run left it.                                                             *)
C2_Idempotent == repeat => store = store0

\* a repeated run of a batch that names the same plan twice with other fields
C2_Witness ==
    /\ repeat
    /\ store /= {}
    /\ Len(tariffs_data.items) = 2
    /\ SavedAt("A") = {1, 2}
    /\ tariffs_data.items[1] /= tariffs_data.items[2]

(* C6: a raw record that violates a field constraint (a negative            *)
(* monthly_fee or overage price) is skipped and never written, so every     *)
(* stored TariffPlan has non-negative monthly_fee, allowances and overage   *)
(* prices; the other records of the batch are still saved.                  *)
C6_InvalidRecordSkipped ==
    /\ \A r \in store :
          /\ r.monthly_fee >= 0
          /\ r.data_volume >= 0
          /\ r.minutes_volume >= 0
          /\ r.overage_data_price >= 0
          /\ r.overage_minute_price >= 0
    /\ operator /= "none" =>
          \A n \in BatchNames :
              (SavedAt(n) /= {}
                 /\ tariffs_data.items[LastOf(SavedAt(n))].monthly_fee >= 0)
              => \E r \in store : KeyOf(r) = <<operator, n>>

\* --- claims about the calculator (SpecCost)
Max0(n) == IF n > 0 THEN n ELSE 0

(* C7: calculate_cost_for_user returns, for every plan and every            *)
(* non-negative consumption, monthly_fee + max(0, data_gb - data_volume) *  *)
(* overage_data_price + max(0, minutes - minutes_volume) *                  *)
(* overage_minute_price.                                                    *)
C7_CostFormula ==
    cost.called =>
        /\ cost.total_cost.t /= "TypeError"
        /\ cost.total_cost.v =
              plan.monthly_fee
              + Max0(cost.data_gb.v - plan.data_volume) * plan.overage_data_price
              + Max0(cost.minutes.v - plan.minutes_volume) * plan.overage_minute_price

(* C8: when a plan's data_volume (minutes_volume) is the sentinel 999999,   *)
(* the data (minutes) overage computed by calculate_cost_for_user is 0 for  *)
(* every consumption, also above 999999.                                    *)
C8_SentinelMeansNoOverage ==
    cost.called =>
        /\ plan.data_volume = UNLIMITED =>
              cost.extra_data.v * plan.overage_data_price = 0
        /\ plan.minutes_volume = UNLIMITED =>
              cost.extra_minutes.v * plan.overage_minute_price = 0

\* the text holds one of the unlimited phrases безлимит / неограничен
HasUnlimitedPhrase(t) ==
    \E i \in 1..Len(t) : t[i] \in {"bezlimit", "neogranichen"}

(* C9: extract_data_gb and extract_minutes return the sentinel 999999 for   *)
(* every text that contains an unlimited phrase (безлимит or неограничен),  *)
(* alone or next to a numeric quantity with a unit.                         *)
C9_UnlimitedPhraseGivesSentinel ==
    (extracted.fn /= "none" /\ HasUnlimitedPhrase(text))
        => extracted.value = UNLIMITED

=============================================================================
